---- MODULE Spec2Model ----
(***************************************************************************)
(* Model of morgana/utils.py: upsample_to_repetitions, the string/ASCII    *)
(* codec (string_to_ascii, ascii_to_string), RecurrentCuDNNWrapper.forward *)
(* and ExponentialMovingAverage.                                           *)
(*                                                                         *)
(* Tensors are sequences (1-based); index values computed by the code stay *)
(* 0-based, as in the source, and are shifted by one only at the access.   *)
(* A raised exception is the outcome record [status |-> "error"].          *)
(***************************************************************************)
EXTENDS Integers, Sequences, FiniteSets, TLC

VARIABLES
    sequence_feature,   \* upsample_to_repetitions argument, [B][T][F]
    repeats,            \* upsample_to_repetitions argument, [B][T]
    upsampled,          \* outcome of upsample_to_repetitions
    perm,               \* a permutation of the batch rows
    upsampledPerm,      \* outcome of the same call on the row-permuted batch
    strings,            \* string_to_ascii argument: list of code-point lists
    max_len,            \* string_to_ascii argument: NoneVal or Some(width)
    wider_len,          \* a second width for string_to_ascii
    int8Mode,           \* how numpy stores an out-of-range int into int8
    encoded,            \* outcome of string_to_ascii(strings, max_len)
    decoded,            \* outcome of ascii_to_string(encoded)
    decodedWide,        \* outcome of ascii_to_string(string_to_ascii(strings, wider_len))
    redecoded,          \* outcome of decoding the re-encoding of decoded at wider_len
    seq_len,            \* RecurrentCuDNNWrapper.forward argument
    hxGiven,            \* whether forward received hx
    layerMode,          \* self.layer.mode
    sorted_idxs,        \* forward local
    unsorting_idxs,     \* forward local
    sorted_seq_len,     \* forward local
    rnnOut,             \* outcome of forward: outputs, hidden
    store,              \* tensor storages: cell -> value
    modelParams,        \* wrapped model: name -> [cell, requires_grad]
    otherParams,        \* other_model: name -> cell
    shadow,             \* ExponentialMovingAverage.shadow: name -> cell
    decay,              \* ExponentialMovingAverage.decay, in units of 1/DecayDen
    updates,            \* number of update_params calls so far
    pc                  \* position of the driver

vars == <<sequence_feature, repeats, upsampled, perm, upsampledPerm,
          strings, max_len, wider_len, int8Mode, encoded, decoded, decodedWide, redecoded,
          seq_len, hxGiven, layerMode, sorted_idxs, unsorting_idxs, sorted_seq_len, rnnOut,
          store, modelParams, otherParams, shadow, decay, updates, pc>>

upVars == <<sequence_feature, repeats, upsampled, perm, upsampledPerm>>
strVars == <<strings, max_len, wider_len, int8Mode, encoded, decoded, decodedWide, redecoded>>
rnnVars == <<seq_len, hxGiven, layerMode, sorted_idxs, unsorting_idxs, sorted_seq_len, rnnOut>>
emaVars == <<store, modelParams, otherParams, shadow, decay, updates>>

\* ---------------------------------------------------------------- bounds
MaxB == 2
MaxT == 3
MaxF == 2
MaxRep == 2
MaxCells == 6       \* batch_size * max_seq_len of the upsampled batch
MaxLines == 2       \* strings in a batch
MaxStrLen == 2      \* characters in a string
MaxChars == 3       \* characters in a batch of strings
MaxWidth == 3       \* largest explicit max_len
MaxBatch == 3       \* batch size of the recurrent wrapper
MaxSeqLen == 3      \* largest sequence length
MaxUpdates == 2     \* update_params calls
DecayDen == 2       \* decay ranges over 0/DecayDen .. DecayDen/DecayDen

\* An optional argument is NoneVal or Some(x).
NoneVal == <<>>
Some(x) == <<x>>
Error == [status |-> "error"]
NotRun == [status |-> "none"]
Ok(v) == [status |-> "ok", value |-> v]
IsOk(r) == r.status = "ok"
IsError(r) == r.status = "error"

\* ---------------------------------------------------------------- helpers
RECURSIVE SumSeq(_)
SumSeq(s) == IF s = <<>> THEN 0 ELSE Head(s) + SumSeq(Tail(s))

MaxOfSet(S) == CHOOSE m \in S : \A x \in S : x <= m

RECURSIVE Replicate(_, _)
Replicate(x, n) == IF n <= 0 THEN <<>> ELSE <<x>> \o Replicate(x, n - 1)

\* ------------------------------------------------ upsample_to_repetitions
\* np.repeat(np.arange(len(repeat)), repeat): raises on a negative count.
RECURSIVE RepeatFrom(_, _)
RepeatFrom(repeat, t) ==
    IF t > Len(repeat) THEN <<>>
    ELSE Replicate(t - 1, repeat[t]) \o RepeatFrom(repeat, t + 1)

NpRepeatLenient(repeat) == Ok(RepeatFrom(repeat, 1))

NpRepeat(repeat) ==
    IF \E t \in 1..Len(repeat) : repeat[t] < 0 THEN Error
    ELSE Ok(RepeatFrom(repeat, 1))

\* reapeated_lens = torch.sum(repeats, dim=1)
RepeatedLens(rep) == [b \in 1..Len(rep) |-> SumSeq(rep[b])]

MinRepeatedLen(rep) == -MaxOfSet({-RepeatedLens(rep)[b] : b \in 1..Len(rep)})

\* max_repeated_len = torch.max(reapeated_lens).item()
MaxRepeatedLen(rep) == MaxOfSet({RepeatedLens(rep)[b] : b \in 1..Len(rep)})

\* torch.cat((sequence_feature, padder), dim=1): one zero frame after each row.
WithPadder(feat, F) == [b \in 1..Len(feat) |-> Append(feat[b], [f \in 1..F |-> 0])]

InitRepeatedIdxsZero(B, L) == [b \in 1..B |-> [p \in 1..L |-> 0]]

\* repeated_idxs = -1 * np.ones((batch_size, max_repeated_len)): every position
\* indexes the padding frame until the loop overwrites it.
InitRepeatedIdxs(B, L) == [b \in 1..B |-> [p \in 1..L |-> -1]]

NpSliceAssignTruncating(row, n, value) ==
    Ok([p \in 1..Len(row) |-> IF p <= n /\ p <= Len(value) THEN value[p] ELSE row[p]])

\* numpy's row[:n] = value for a 1-d row: the slice is clipped to the row, the
\* value must have the slice's length or broadcast from length 1.
NpSliceAssign(row, n, value) ==
    LET k == IF n >= 0 THEN (IF n < Len(row) THEN n ELSE Len(row))
                       ELSE (IF Len(row) + n > 0 THEN Len(row) + n ELSE 0)
    IN  IF Len(value) = k
        THEN Ok([p \in 1..Len(row) |-> IF p <= k THEN value[p] ELSE row[p]])
        ELSE IF Len(value) = 1
        THEN Ok([p \in 1..Len(row) |-> IF p <= k THEN value[1] ELSE row[p]])
        ELSE Error

\* The loop of lines 156-157, from row b on: row b of repeated_idxs gets the
\* np.repeat result in its first repeated_len positions; a raise ends the call.
RECURSIVE FillIdxs(_, _, _, _)
FillIdxs(idxs, rep, lens, b) ==
    IF b > Len(rep) THEN Ok(idxs)
    ELSE LET r == NpRepeat(rep[b]) IN
         IF IsError(r) THEN Error
         ELSE LET a == NpSliceAssign(idxs[b], lens[b], r.value) IN
              IF IsError(a) THEN Error
              ELSE FillIdxs([idxs EXCEPT ![b] = a.value], rep, lens, b + 1)

BatchIdxsRowZero(B, L) == [b \in 1..B |-> [p \in 1..L |-> 0]]

\* batch_idxs = torch.arange(batch_size)[:, None].repeat(1, max_repeated_len)
BatchIdxs(B, L) == [b \in 1..B |-> [p \in 1..L |-> b - 1]]

\* Python indexing of a length-n axis with i: negative i counts from the end.
PyIndex(i, n) == IF i < 0 THEN i + n ELSE i

upsample_to_repetitions(feat, F, rep) ==
    LET batch_size == Len(feat)
        max_seq_len == Len(feat[1])
        lens == RepeatedLens(rep)
        max_repeated_len == MaxRepeatedLen(rep)
    IN  IF max_repeated_len < 0 THEN Error  \* repeat(1, negative) raises
        ELSE
        LET with_padder == WithPadder(feat, F)
            batch_idxs == BatchIdxs(batch_size, max_repeated_len)
            init_idxs == InitRepeatedIdxs(batch_size, max_repeated_len)
            filled == FillIdxs(init_idxs, rep, lens, 1)
        IN  IF IsError(filled) THEN Error
            ELSE Ok([shape |-> <<batch_size, max_repeated_len, F>>,
                     data |-> [b \in 1..batch_size |-> [p \in 1..max_repeated_len |->
                                 with_padder[batch_idxs[b][p] + 1]
                                            [PyIndex(filled.value[b][p], max_seq_len + 1) + 1]]]])

\* ------------------------------------------- string_to_ascii, ascii_to_string
\* A string is the sequence of its code points, so ord and chr are the
\* identity on valid code points; chr raises on a negative code.
MinLenOf(strs) == -MaxOfSet({-Len(strs[i]) : i \in 1..Len(strs)})

\* max(map(len, strings))
MaxLenOf(strs) == MaxOfSet({Len(strs[i]) : i \in 1..Len(strs)})

\* Storing the Python int c into an np.int8 array: out of range either raises
\* (numpy >= 2) or wraps around (older numpy).
Int8(c, mode) ==
    IF c >= -128 /\ c <= 127 THEN Ok(c)
    ELSE IF mode = "raise" THEN Error
    ELSE Ok(((c + 128) % 256) - 128)

\* ascii = list(map(ord, line)), converted to the array's dtype.
AsciiRow(line, mode) ==
    IF \E k \in 1..Len(line) : IsError(Int8(line[k], mode)) THEN Error
    ELSE Ok([k \in 1..Len(line) |-> Int8(line[k], mode).value])

\* The loop of lines 199-201 from line i on.
RECURSIVE EncodeLines(_, _, _, _)
EncodeLines(enc, strs, mode, i) ==
    IF i > Len(strs) THEN Ok(enc)
    ELSE LET ascii == AsciiRow(strs[i], mode) IN
         IF IsError(ascii) THEN Error
         ELSE LET a == NpSliceAssign(enc[i], Len(strs[i]), ascii.value) IN
              IF IsError(a) THEN Error
              ELSE EncodeLines([enc EXCEPT ![i] = a.value], strs, mode, i + 1)

string_to_ascii(strs, ml, mode) ==
    LET num_lines == Len(strs) IN
    IF ml = NoneVal /\ num_lines = 0 THEN Error     \* max() of an empty sequence
    ELSE LET max_num_chars == IF ml = NoneVal THEN MaxLenOf(strs) ELSE ml[1]
             zeros == [i \in 1..num_lines |-> [k \in 1..max_num_chars |-> 0]]
             filled == EncodeLines(zeros, strs, mode, 1)
         IN  IF IsError(filled) THEN Error
             ELSE Ok([shape |-> <<num_lines, max_num_chars>>, data |-> filled.value])

StripNothing(chars) == chars

\* filter(lambda s: s != chr(0), chars)
StripPadding(chars) == SelectSeq(chars, LAMBDA c : c # 0)

\* map(chr, codes) followed by ''.join: chr raises on a negative code.
ascii_to_string(ascii) ==
    IF \E i \in 1..Len(ascii) : \E k \in 1..Len(ascii[i]) : ascii[i][k] < 0 THEN Error
    ELSE Ok([i \in 1..Len(ascii) |-> StripPadding(ascii[i])])

\* ascii_to_string(string_to_ascii(strs, ml)); an exception of either propagates.
EncodeDecode(strs, ml, mode) ==
    LET e == string_to_ascii(strs, ml, mode) IN
    IF IsError(e) THEN Error ELSE ascii_to_string(e.value.data)

\* ------------------------------------------- RecurrentCuDNNWrapper.forward
IndexPerms(n) == {q \in [1..n -> 0..(n - 1)] : \A i, j \in 1..n : q[i] = q[j] => i = j}

\* torch.argsort(v, descending=True): any order of the indexes that sorts v;
\* the order among equal values is not specified.
ArgsortDesc(v) ==
    {q \in IndexPerms(Len(v)) : \A j \in 1..(Len(v) - 1) : v[q[j] + 1] >= v[q[j + 1] + 1]}

\* torch.argsort(v)
ArgsortAsc(v) ==
    {q \in IndexPerms(Len(v)) : \A j \in 1..(Len(v) - 1) : v[q[j] + 1] <= v[q[j + 1] + 1]}

\* x[idxs, ...]
Gather(x, idxs) == [j \in 1..Len(idxs) |-> x[idxs[j] + 1]]

UnsortingIdxsSame(sidx) == {sidx}

\* unsorting_idxs = torch.argsort(sorted_idxs)
UnsortingIdxs(sidx) == ArgsortAsc(sidx)

\* pack_padded_sequence(..., enforce_sorted=True) raises unless the lengths are
\* positive and sorted in decreasing order.
PackOk(lens) ==
    /\ \A j \in 1..Len(lens) : lens[j] > 0
    /\ \A j \in 1..(Len(lens) - 1) : lens[j] >= lens[j + 1]

\* The batch the wrapped layer receives: row j is the packed input row j with
\* its length and, when hx is given, row j of the sorted hx.
LayerInput(sorted_inputs, lens, hx) ==
    [j \in 1..Len(sorted_inputs) |->
        [input |-> sorted_inputs[j], len |-> lens[j],
         hx |-> IF hx = NoneVal THEN NoneVal ELSE Some(hx[j])]]

\* self.layer(packed_inputs, hx): row j of the outputs and of the final hidden
\* state is computed from row j of what the layer received.
LayerRun(lin, mode) ==
    [outputs |-> [j \in 1..Len(lin) |-> [kind |-> "out", of |-> lin[j]]],
     hidden |-> IF mode = "LSTM"
                THEN <<[j \in 1..Len(lin) |-> [kind |-> "h", of |-> lin[j]]],
                       [j \in 1..Len(lin) |-> [kind |-> "c", of |-> lin[j]]]>>
                ELSE [j \in 1..Len(lin) |-> [kind |-> "h", of |-> lin[j]]]]

\* Batch row i of inputs and of hx is tagged with i.
Inputs(n) == [i \in 1..n |-> [item |-> i]]

Hx(n, given, mode) ==
    IF ~given THEN NoneVal
    ELSE IF mode = "LSTM"
    THEN <<[i \in 1..n |-> [h0 |-> i]], [i \in 1..n |-> [c0 |-> i]]>>
    ELSE [i \in 1..n |-> [h0 |-> i]]

\* Lines 256-261: hx reordered by sorted_idxs, per layer mode; row j of the
\* result pairs the two LSTM states of one row.
SortedHx(hx, mode, sidx) ==
    IF hx = NoneVal THEN NoneVal
    ELSE IF mode = "LSTM"
    THEN LET h == Gather(hx[1], sidx)
             c == Gather(hx[2], sidx)
         IN  [j \in 1..Len(sidx) |-> <<h[j], c[j]>>]
    ELSE Gather(hx, sidx)

\* Lines 266-277 for given sorted_idxs and unsorting_idxs.
forward(lens, given, mode, sidx, uidx) ==
    LET n == Len(lens)
        sorted_inputs == Gather(Inputs(n), sidx)
        slens == Gather(lens, sidx)
    IN  IF ~PackOk(slens) THEN Error
        ELSE LET lin == LayerInput(sorted_inputs, slens, SortedHx(Hx(n, given, mode), mode, sidx))
                 res == LayerRun(lin, mode)
             IN  Ok([outputs |-> Gather(res.outputs, uidx),
                     hidden |-> IF mode = "LSTM"
                                THEN <<Gather(res.hidden[1], uidx), Gather(res.hidden[2], uidx)>>
                                ELSE Gather(res.hidden, uidx)])

\* ------------------------------------------------ ExponentialMovingAverage
RECURSIVE Pow(_, _)
Pow(x, n) == IF n = 0 THEN 1 ELSE x * Pow(x, n - 1)

\* Parameter values are multiples of Scale, so that MaxUpdates updates with a
\* decay of k/DecayDen stay exact.
Scale == Pow(DecayDen, MaxUpdates)

ModelNames == {"a", "b", "c"}
OtherNameUniverse == {"a", "b", "d"}
ModelCell == [n \in ModelNames |-> CASE n = "a" -> 1 [] n = "b" -> 2 [] OTHER -> 3]
OtherCell == [n \in OtherNameUniverse |-> CASE n = "a" -> 4 [] n = "b" -> 5 [] OTHER -> 6]
SpareCell == [n \in ModelNames |-> ModelCell[n] + 6]
Cells == 1..9

\* named_parameters() order
NameOrder == <<"a", "b", "c", "d">>

MakeShadowClone(st, mp) ==
    [shadow |-> [n \in {m \in DOMAIN mp : mp[m].requires_grad} |-> SpareCell[n]],
     store |-> [c \in Cells |->
                  IF \E n \in DOMAIN mp : mp[n].requires_grad /\ SpareCell[n] = c
                  THEN st[mp[CHOOSE n \in DOMAIN mp : SpareCell[n] = c].cell]
                  ELSE st[c]]]

\* __init__: shadow[name] = param.data for every parameter with requires_grad;
\* param.data shares the parameter's storage.
MakeShadow(st, mp) ==
    [shadow |-> [n \in {m \in DOMAIN mp : mp[m].requires_grad} |-> mp[n].cell],
     store |-> st]

UpdateParamPlus(st, sh, name, x, d) ==
    LET update_delta == st[sh[name]] - x
    IN  [st EXCEPT ![sh[name]] = @ + ((DecayDen - d) * update_delta) \div DecayDen]

\* _update_param: shadow[name] -= (1.0 - decay) * (shadow[name] - x), in place.
UpdateParam(st, sh, name, x, d) ==
    LET update_delta == st[sh[name]] - x
    IN  [st EXCEPT ![sh[name]] = @ - ((DecayDen - d) * update_delta) \div DecayDen]

\* update_params: the loop over other_model.named_parameters() from position k.
RECURSIVE UpdateParams(_, _, _, _, _)
UpdateParams(st, sh, op, d, k) ==
    IF k > Len(NameOrder) THEN st
    ELSE LET name == NameOrder[k] IN
         IF name \in DOMAIN op /\ name \in DOMAIN sh
         THEN UpdateParams(UpdateParam(st, sh, name, st[op[name]], d), sh, op, d, k + 1)
         ELSE UpdateParams(st, sh, op, d, k + 1)

\* ------------------------------------------------------------ idle values
StrIdle ==
    /\ strings = <<>> /\ max_len = NoneVal /\ wider_len = NoneVal /\ int8Mode = "wrap"
    /\ encoded = NotRun /\ decoded = NotRun /\ decodedWide = NotRun /\ redecoded = NotRun

UpIdle ==
    /\ sequence_feature = <<>> /\ repeats = <<>> /\ perm = <<>>
    /\ upsampled = NotRun /\ upsampledPerm = NotRun

RnnIdle ==
    /\ seq_len = <<>> /\ hxGiven = FALSE /\ layerMode = "GRU"
    /\ sorted_idxs = <<>> /\ unsorting_idxs = <<>> /\ sorted_seq_len = <<>>
    /\ rnnOut = NotRun

NoShadow == [n \in {} |-> 0]

EmaIdle ==
    /\ store = [c \in Cells |-> 0]
    /\ modelParams = NoShadow /\ otherParams = NoShadow /\ shadow = NoShadow
    /\ decay = 0 /\ updates = 0

\* ------------------------------------------- specification of the upsampler
RepVals == (-1)..MaxRep

\* Batches of repetition counts, shape [B][T].
RepBatches(B, T) == [1..B -> [1..T -> RepVals]]

FeatKinds == {"tagged", "frames"}

\* A feature batch of shape [B][T][F]: every cell distinct ("tagged"), or the
\* frames 5, 7, 9, ... repeated in every row ("frames").
FeatBatch(kind, B, T, F) ==
    [b \in 1..B |-> [t \in 1..T |-> [f \in 1..F |->
        IF kind = "tagged" THEN 100 * b + 10 * t + f ELSE 3 + 2 * t]]]

Perms(B) == {q \in [1..B -> 1..B] : \A i, j \in 1..B : q[i] = q[j] => i = j}

FeatDim(feat) == Len(feat[1][1])

UpInit ==
    \E B \in 1..MaxB, T \in 1..MaxT, F \in 1..MaxF, kind \in FeatKinds :
        /\ B * T <= MaxCells
        /\ kind = "frames" => F = 1
        /\ sequence_feature = FeatBatch(kind, B, T, F)
        /\ repeats \in RepBatches(B, T)
        /\ perm = <<>>
        /\ upsampled = NotRun
        /\ upsampledPerm = NotRun

\* The caller invokes upsample_to_repetitions(sequence_feature, repeats).
UpsampleCall ==
    /\ pc = "up_start"
    /\ upsampled' = upsample_to_repetitions(sequence_feature, FeatDim(sequence_feature), repeats)
    /\ pc' = "up_done"
    /\ UNCHANGED <<sequence_feature, repeats, perm, upsampledPerm, strVars, rnnVars, emaVars>>

\* The caller invokes it again on (sequence_feature[perm], repeats[perm]).
UpsamplePermCall ==
    /\ pc = "up_done"
    /\ \E q \in Perms(Len(sequence_feature)) :
          /\ perm' = q
          /\ upsampledPerm' = upsample_to_repetitions(
                                  [b \in 1..Len(q) |-> sequence_feature[q[b]]],
                                  FeatDim(sequence_feature),
                                  [b \in 1..Len(q) |-> repeats[q[b]]])
    /\ pc' = "up_permuted"
    /\ UNCHANGED <<sequence_feature, repeats, upsampled, strVars, rnnVars, emaVars>>

InitUpsample == UpInit /\ StrIdle /\ RnnIdle /\ EmaIdle /\ pc = "up_start"

NextUpsample == UpsampleCall \/ UpsamplePermCall

SpecUpsample == InitUpsample /\ [][NextUpsample]_vars

\* --------------------------------------- specification of the string codec
\* NUL, 'A', DEL (the largest ASCII code) and a non-ASCII character.
Chars == {0, 65, 127, 200}

RECURSIVE SeqsUpTo(_, _)
SeqsUpTo(S, n) ==
    IF n = 0 THEN {<<>>}
    ELSE LET shorter == SeqsUpTo(S, n - 1)
         IN  shorter \cup {Append(q, x) : q \in {r \in shorter : Len(r) = n - 1}, x \in S}

Strs == SeqsUpTo(Chars, MaxStrLen)

\* The lists of n strings with at most c characters in all.
RECURSIVE StrLists(_, _)
StrLists(n, c) ==
    IF n = 0 THEN {<<>>}
    ELSE UNION {{<<s>> \o rest : rest \in StrLists(n - 1, c - Len(s))} :
                  s \in {t \in Strs : Len(t) <= c}}

StrInit ==
    /\ \E n \in 0..MaxLines : strings \in StrLists(n, MaxChars)
    /\ max_len \in {NoneVal} \cup {Some(m) : m \in 0..MaxWidth}
    /\ int8Mode \in {"wrap", "raise"}
    /\ wider_len = NoneVal
    /\ encoded = NotRun /\ decoded = NotRun /\ decodedWide = NotRun /\ redecoded = NotRun

\* encoded = string_to_ascii(strings, max_len)
EncodeCall ==
    /\ pc = "str_start"
    /\ encoded' = string_to_ascii(strings, max_len, int8Mode)
    /\ pc' = "str_encoded"
    /\ UNCHANGED <<strings, max_len, wider_len, int8Mode, decoded, decodedWide, redecoded,
                 upVars, rnnVars, emaVars>>

\* decoded = ascii_to_string(encoded); not reached when the encoding raised.
DecodeCall ==
    /\ pc = "str_encoded"
    /\ IsOk(encoded)
    /\ decoded' = ascii_to_string(encoded.value.data)
    /\ pc' = "str_decoded"
    /\ UNCHANGED <<strings, max_len, wider_len, int8Mode, encoded, decodedWide, redecoded,
                 upVars, rnnVars, emaVars>>

\* The same batch encoded at a width at least max_len, then decoded.
WiderCall ==
    /\ pc = "str_decoded"
    /\ max_len # NoneVal
    /\ \E w \in max_len[1]..MaxWidth :
          /\ wider_len' = Some(w)
          /\ decodedWide' = EncodeDecode(strings, Some(w), int8Mode)
    /\ pc' = "str_wider"
    /\ UNCHANGED <<strings, max_len, int8Mode, encoded, decoded, redecoded,
                 upVars, rnnVars, emaVars>>

\* The decoded strings encoded again at the larger width, then decoded.
ReencodeCall ==
    /\ pc = "str_wider"
    /\ IsOk(decoded)
    /\ redecoded' = EncodeDecode(decoded.value, wider_len, int8Mode)
    /\ pc' = "str_redecoded"
    /\ UNCHANGED <<strings, max_len, wider_len, int8Mode, encoded, decoded, decodedWide,
                 upVars, rnnVars, emaVars>>

InitStrings == StrInit /\ UpIdle /\ RnnIdle /\ EmaIdle /\ pc = "str_start"

NextStrings == EncodeCall \/ DecodeCall \/ WiderCall \/ ReencodeCall

SpecStrings == InitStrings /\ [][NextStrings]_vars

\* --------------------------------- specification of the recurrent wrapper
RnnInit ==
    /\ \E n \in 1..MaxBatch : seq_len \in [1..n -> 1..MaxSeqLen]
    /\ hxGiven \in BOOLEAN
    /\ layerMode \in {"LSTM", "GRU"}
    /\ sorted_idxs = <<>> /\ unsorting_idxs = <<>> /\ sorted_seq_len = <<>>
    /\ rnnOut = NotRun

\* RecurrentCuDNNWrapper.forward(inputs, hx, seq_len)
Forward ==
    /\ pc = "rnn_start"
    /\ \E sidx \in ArgsortDesc(seq_len) : \E uidx \in UnsortingIdxs(sidx) :
          /\ sorted_idxs' = sidx
          /\ sorted_seq_len' = Gather(seq_len, sidx)
          /\ unsorting_idxs' = uidx
          /\ rnnOut' = forward(seq_len, hxGiven, layerMode, sidx, uidx)
    /\ pc' = "rnn_done"
    /\ UNCHANGED <<seq_len, hxGiven, layerMode, upVars, strVars, emaVars>>

InitRnn == RnnInit /\ UpIdle /\ StrIdle /\ EmaIdle /\ pc = "rnn_start"

NextRnn == Forward

SpecRnn == InitRnn /\ [][NextRnn]_vars

\* ------------------------ specification of the exponential moving average
OtherVals == {0, Scale}

EmaInit ==
    /\ \E rg \in [ModelNames -> BOOLEAN] :
          modelParams = [n \in ModelNames |-> [cell |-> ModelCell[n], requires_grad |-> rg[n]]]
    /\ \E O \in SUBSET OtherNameUniverse : otherParams = [n \in O |-> OtherCell[n]]
    /\ \E ov \in [OtherNameUniverse -> OtherVals] :
          store = [c \in Cells |->
                     IF c \in 1..3 THEN c * Scale
                     ELSE IF \E n \in DOMAIN otherParams : OtherCell[n] = c
                     THEN ov[CHOOSE n \in OtherNameUniverse : OtherCell[n] = c]
                     ELSE 0]
    /\ decay \in 0..DecayDen
    /\ shadow = NoShadow
    /\ updates = 0

\* ema = ExponentialMovingAverage(model, decay)
Construct ==
    /\ pc = "ema_start"
    /\ LET made == MakeShadow(store, modelParams)
       IN  shadow' = made.shadow /\ store' = made.store
    /\ pc' = "ema_ready"
    /\ UNCHANGED <<modelParams, otherParams, decay, updates, upVars, strVars, rnnVars>>

\* ema.update_params(other_model)
UpdateParamsCall ==
    /\ pc = "ema_ready"
    /\ updates < MaxUpdates
    /\ store' = UpdateParams(store, shadow, otherParams, decay, 1)
    /\ updates' = updates + 1
    /\ UNCHANGED <<modelParams, otherParams, shadow, decay, pc, upVars, strVars, rnnVars>>

\* The training loop changes a parameter of other_model between two calls.
TrainOther ==
    /\ pc = "ema_ready"
    /\ updates < MaxUpdates
    /\ \E n \in DOMAIN otherParams, v \in OtherVals :
          /\ store[otherParams[n]] # v
          /\ store' = [store EXCEPT ![otherParams[n]] = v]
    /\ UNCHANGED <<modelParams, otherParams, shadow, decay, updates, pc, upVars, strVars, rnnVars>>

InitEma == EmaInit /\ UpIdle /\ StrIdle /\ RnnIdle /\ pc = "ema_start"

NextEma == Construct \/ UpdateParamsCall \/ TrainOther

SpecEma == InitEma /\ [][NextEma]_vars

\* ------------------------------------------------------------- properties
NonNegative(rep) == \A b \in 1..Len(rep) : \A t \in 1..Len(rep[b]) : rep[b][t] >= 0
HasNegative(rep) == \E b \in 1..Len(rep) : \E t \in 1..Len(rep[b]) : rep[b][t] < 0
PrefixSum(row, t) == SumSeq(SubSeq(row, 1, t))
ZeroFrame(F) == [f \in 1..F |-> 0]

\* C1: with non-negative repeats the call returns, and in every output row b
\* position p (1-based) up to sum(repeats[b]) holds the input step t whose
\* span of counts covers p (steps in order, zero counts covering nothing);
\* every later position is the all-zero frame.
C1_UpsampleContent ==
    (pc # "up_start" /\ NonNegative(repeats)) =>
        /\ IsOk(upsampled)
        /\ \A b \in 1..Len(repeats) :
             LET row == upsampled.value.data[b]
                 total == SumSeq(repeats[b])
             IN  /\ Len(row) >= total
                 /\ \A p \in 1..Len(row) :
                      IF p <= total
                      THEN \E t \in 1..Len(repeats[b]) :
                              /\ PrefixSum(repeats[b], t - 1) < p
                              /\ p <= PrefixSum(repeats[b], t)
                              /\ row[p] = sequence_feature[b][t]
                      ELSE row[p] = ZeroFrame(FeatDim(sequence_feature))

\* The row [2,0,1] over the frames 5, 7, 9 next to a longer row: 5, 5, 9 and
\* two frames of padding.
C1_Witness ==
    /\ pc = "up_done"
    /\ repeats = <<<<2, 0, 1>>, <<2, 2, 1>>>>
    /\ sequence_feature = FeatBatch("frames", 2, 3, 1)
    /\ IsOk(upsampled)
    /\ upsampled.value.data[1] = <<<<5>>, <<5>>, <<9>>, <<0>>, <<0>>>>

\* C2: with non-negative repeats the output has shape [B, L, F], L being the
\* largest row sum of repeats (0 when every count is 0), B and F those of the
\* input.
C2_UpsampleShape ==
    (pc # "up_start" /\ NonNegative(repeats)) =>
        /\ IsOk(upsampled)
        /\ LET B == Len(sequence_feature)
               F == FeatDim(sequence_feature)
               L == upsampled.value.shape[2]
               data == upsampled.value.data
           IN  /\ upsampled.value.shape = <<B, L, F>>
               /\ \E b \in 1..B : SumSeq(repeats[b]) = L
               /\ \A b \in 1..B : SumSeq(repeats[b]) <= L
               /\ Len(data) = B
               /\ \A b \in 1..B :
                    /\ Len(data[b]) = L
                    /\ \A p \in 1..L : Len(data[b][p]) = F

\* Every count zero: an output of length 0.
C2_Witness ==
    /\ pc = "up_done"
    /\ Len(repeats) = 2
    /\ \A b \in 1..2 : SumSeq(repeats[b]) = 0 /\ NonNegative(repeats)
    /\ IsOk(upsampled)
    /\ upsampled.value.shape = <<2, 0, 2>>

\* A row padded with zero frames to length L.
PadTo(row, L, F) == [p \in 1..L |-> IF p <= Len(row) THEN row[p] ELSE ZeroFrame(F)]

\* C4: upsampling the row-permuted batch gives the row-permuted output (or
\* fails when the original call fails), and output row b is what upsampling
\* input row b alone gives, padded to the batch's output length.
C4_BatchIndependence ==
    pc = "up_permuted" =>
        /\ upsampledPerm.status = upsampled.status
        /\ IsOk(upsampled) =>
             LET F == FeatDim(sequence_feature)
                 L == upsampled.value.shape[2]
             IN  \A b \in 1..Len(repeats) :
                   /\ upsampledPerm.value.data[b] = upsampled.value.data[perm[b]]
                   /\ LET alone == upsample_to_repetitions(<<sequence_feature[b]>>, F, <<repeats[b]>>)
                      IN  /\ IsOk(alone)
                          /\ upsampled.value.data[b] = PadTo(alone.value.data[1], L, F)

C4_Witness ==
    /\ pc = "up_permuted"
    /\ perm = <<2, 1>>
    /\ IsOk(upsampled) /\ IsOk(upsampledPerm)
    /\ upsampled.value.shape[2] > 0
    /\ upsampled.value.data[1] # upsampled.value.data[2]
    /\ upsampledPerm.value.data[1] = upsampled.value.data[2]

\* C6: when repeats has a negative entry the call raises; it returns no tensor.
C6_NegativeRepeatsFail ==
    (pc # "up_start" /\ HasNegative(repeats)) => IsError(upsampled)

\* The negative count sits in the second row and no row sum is negative.
C6_Witness ==
    /\ pc = "up_done"
    /\ repeats = <<<<1, 1>>, <<2, -1>>>>
    /\ IsError(upsampled)

AsciiOnly(strs) == \A i \in 1..Len(strs) : \A k \in 1..Len(strs[i]) : strs[i][k] \in 0..127
NoNul(strs) == \A i \in 1..Len(strs) : \A k \in 1..Len(strs[i]) : strs[i][k] # 0
FitsWidth(strs, ml) == ml = NoneVal \/ \A i \in 1..Len(strs) : Len(strs[i]) <= ml[1]

\* Encoding returned and, once decoding ran, it returned the original list.
RoundTripHolds ==
    /\ IsOk(encoded)
    /\ pc # "str_encoded" => (IsOk(decoded) /\ decoded.value = strings)

\* C3 as stated: every list of ASCII-only strings, max_len omitted or at least
\* the longest length, decodes back to the original list.
C3_RoundTripAllAscii ==
    (pc # "str_start" /\ AsciiOnly(strings) /\ FitsWidth(strings, max_len)) => RoundTripHolds

\* C3 amended: the same for ASCII-only strings without the NUL character, the
\* list being non-empty when max_len is omitted.
C3_RoundTripNoNul ==
    (/\ pc # "str_start"
     /\ AsciiOnly(strings) /\ NoNul(strings)
     /\ FitsWidth(strings, max_len)
     /\ (max_len # NoneVal \/ strings # <<>>)) => RoundTripHolds

C3_Witness ==
    /\ pc = "str_decoded"
    /\ strings = <<<<65, 127>>, <<127>>>>
    /\ max_len = Some(3)
    /\ IsOk(decoded)
    /\ decoded.value = strings

\* C5: for widths max_len <= wider_len, max_len at least the longest string,
\* decoding the encoding at wider_len gives the outcome of decoding the
\* encoding at max_len, and encoding that outcome at wider_len and decoding
\* it gives the same strings again.
C5_DecodeStableUnderWidth ==
    (pc \in {"str_wider", "str_redecoded"} /\ FitsWidth(strings, max_len)) =>
        /\ decodedWide = decoded
        /\ pc = "str_redecoded" => redecoded = decoded

C5_Witness ==
    /\ pc = "str_redecoded"
    /\ strings = <<<<65, 0>>, <<127>>>>
    /\ max_len = Some(2) /\ wider_len = Some(3)
    /\ IsOk(redecoded)
    /\ redecoded.value = <<<<65>>, <<127>>>>

TooLong(strs, ml) == {i \in 1..Len(strs) : Len(strs[i]) > ml[1]}

\* C8 as stated: an explicit max_len and a string longer than it always raise.
C8_TooLongAlwaysFails ==
    (pc # "str_start" /\ max_len # NoneVal /\ TooLong(strings, max_len) # {}) => IsError(encoded)

\* C8 amended: the call raises when a string longer than max_len has at least
\* two characters or max_len is at least 1; with max_len = 0 and ASCII strings
\* of at most one character it returns an array of shape [n, 0] (the single
\* character broadcasts into the empty slice).
C8_TooLongFailsUnlessEmptyWidth ==
    /\ (/\ pc # "str_start" /\ max_len # NoneVal
        /\ \E i \in TooLong(strings, max_len) : Len(strings[i]) >= 2 \/ max_len[1] >= 1)
           => IsError(encoded)
    /\ (/\ pc # "str_start" /\ max_len = Some(0)
        /\ AsciiOnly(strings)
        /\ \A i \in 1..Len(strings) : Len(strings[i]) <= 1)
           => (IsOk(encoded) /\ encoded.value.shape = <<Len(strings), 0>>)

C8_Witness ==
    /\ pc = "str_encoded"
    /\ strings = <<<<65>>, <<65, 127>>>>
    /\ max_len = Some(1)
    /\ IsError(encoded)

\* C9: forward returns; unsorting_idxs and sorted_idxs are inverse
\* permutations; output row i and final hidden state i come from input row i
\* and, when hx is given, from hx entry i; the lengths given to the packing
\* are non-increasing.
FromItem(r, i) ==
    /\ r.of.input = [item |-> i]
    /\ r.of.len = seq_len[i]
    /\ r.of.hx = IF ~hxGiven THEN NoneVal
                 ELSE IF layerMode = "LSTM" THEN Some(<<[h0 |-> i], [c0 |-> i]>>)
                 ELSE Some([h0 |-> i])

C9_ForwardRestoresOrder ==
    pc = "rnn_done" =>
        LET n == Len(seq_len) IN
        /\ IsOk(rnnOut)
        /\ \A j \in 1..n : unsorting_idxs[sorted_idxs[j] + 1] = j - 1
        /\ \A i \in 1..n : sorted_idxs[unsorting_idxs[i] + 1] = i - 1
        /\ \A j \in 1..(n - 1) : sorted_seq_len[j] >= sorted_seq_len[j + 1]
        /\ \A i \in 1..n :
             /\ FromItem(rnnOut.value.outputs[i], i)
             /\ IF layerMode = "LSTM"
                THEN FromItem(rnnOut.value.hidden[1][i], i) /\ FromItem(rnnOut.value.hidden[2][i], i)
                ELSE FromItem(rnnOut.value.hidden[i], i)

\* Three rows with a tie between two lengths, sorted by a 3-cycle.
C9_Witness ==
    /\ pc = "rnn_done"
    /\ seq_len = <<2, 1, 2>>
    /\ sorted_idxs = <<2, 0, 1>>
    /\ unsorting_idxs = <<1, 2, 0>>
    /\ hxGiven /\ layerMode = "LSTM"
    /\ IsOk(rnnOut)

\* C7: one update_params call replaces the shadow value s of every name that
\* shadow and other_model share by decay*s + (1-decay)*x, x being the other
\* model's value; so decay = 1 keeps s, decay = 0 gives x, and s = x stays x.
C7_EmaUpdateRule ==
    [][updates' = updates + 1 =>
         \A n \in DOMAIN shadow \cap DOMAIN otherParams :
            LET s == store[shadow[n]]
                x == store[otherParams[n]]
                s2 == store'[shadow[n]]
            IN  /\ DecayDen * s2 = decay * s + (DecayDen - decay) * x
                /\ decay = DecayDen => s2 = s
                /\ decay = 0 => s2 = x
                /\ s = x => s2 = x]_vars

\* Two updates with a decay strictly between 0 and 1 moved the shadow of "a"
\* off both starting values.
C7_Witness ==
    /\ updates = 2
    /\ decay > 0 /\ decay < DecayDen
    /\ "a" \in DOMAIN shadow /\ "a" \in DOMAIN otherParams
    /\ store[shadow["a"]] # Scale
    /\ store[shadow["a"]] # store[otherParams["a"]]

\* The state after construction: shadow tracks exactly the parameters with
\* requires_grad, each through the wrapped model's own storage.
ShadowAliasesModel ==
    /\ DOMAIN shadow = {n \in DOMAIN modelParams : modelParams[n].requires_grad}
    /\ \A n \in DOMAIN shadow :
         /\ shadow[n] = modelParams[n].cell
         /\ store[shadow[n]] = store[modelParams[n].cell]

====
